---- MODULE Spec2Model ----
(***************************************************************************)
(* Model of the AQI dashboard pipeline of src/aqi_dashboard.py:            *)
(*   get_aqi_data          (City Reading Fetcher)                          *)
(*   fetch_all_cities_data (Batch Collector, behind st.cache_data(ttl))    *)
(*   the module-level normalization block (Table Normalizer)               *)
(*   get_aqi_category      (Category Classifier)                           *)
(* One script run = one call of fetch_all_cities_data followed by the      *)
(* display branch and the normalization of the returned frame.             *)
(***************************************************************************)
EXTENDS Integers, Sequences, FiniteSets, TLC

\* ---------------------------------------------------------------- bounds

\* How many of the configured cities the model iterates (a prefix of CITIES).
NumCities == 3

\* Numbers are kept as multiples of 1/Den, so that 50.5 is representable.
Den == 2

\* Largest AQI value (in whole units) the classifier is exercised on.
MaxAqi == 302

\* ------------------------------------------------------- program constants

\* st.cache_data(ttl=600)
ttl == 600

\* The display names of CITIES, in declaration order.
AllCities ==
    << "Delhi", "Mumbai", "Kolkata", "Chennai", "Bengaluru", "Hyderabad",
       "Pune", "Ahmedabad", "Jaipur", "Lucknow", "Bhopal", "Patna" >>

CITIES == SubSeq(AllCities, 1, NumCities)

\* ------------------------------------------------------------------ values

\* A scalar as it appears in a JSON payload or a frame cell.
\*   k = "absent"  the key is not in the dict
\*   k = "null"    None
\*   k = "num"     the number n / Den
\*   k = "str"     the string whose characters are s
\*   k = "nan"     float NaN (only produced by to_numeric)
Absent == [k |-> "absent", n |-> 0, s |-> <<>>]
Null == [k |-> "null", n |-> 0, s |-> <<>>]
NaN == [k |-> "nan", n |-> 0, s |-> <<>>]
Num(x) == [k |-> "num", n |-> x, s |-> <<>>]
Str(cs) == [k |-> "str", n |-> 0, s |-> cs]

\* dict.get(key, None): an absent key reads as None.
GetOrNone(v) == IF v.k = "absent" THEN Null ELSE v

\* --------------------------------------------------------- upstream payload

\* data.city.geo: absent, null, or a list of scalars.
GeoAbsent == [k |-> "absent", xs |-> <<>>]
GeoNull == [k |-> "null", xs |-> <<>>]
GeoList(xs) == [k |-> "list", xs |-> xs]

\* data.city: absent, null, or a dict holding geo.
CityAbsent == [k |-> "absent", geo |-> GeoAbsent]
CityNull == [k |-> "null", geo |-> GeoAbsent]
CityDict(g) == [k |-> "dict", geo |-> g]

\* data.time: absent, null, or a dict holding s.
TimeAbsent == [k |-> "absent", s |-> Absent]
TimeNull == [k |-> "null", s |-> Absent]
TimeDict(s) == [k |-> "dict", s |-> s]

\* The payload's "data" member: absent, null, a string (msg) or a dict.
DataAbsent ==
    [k |-> "absent", msg |-> "", aqi |-> Absent, city |-> CityAbsent,
     time |-> TimeAbsent]
DataNull == [DataAbsent EXCEPT !.k = "null"]
DataStr(m) == [DataAbsent EXCEPT !.k = "str", !.msg = m]
DataDict(a, c, t) == [k |-> "dict", msg |-> "", aqi |-> a, city |-> c, time |-> t]

\* What one HTTP GET can come back with.
\*   net = "timeout"     requests raises (timeout, connection failure)
\*   net = "bad_status"  raise_for_status raises
\*   net = "ok"          a JSON body {status, data}
Response(net, status, data) == [net |-> net, status |-> status, data |-> data]

TsSample == Str(<<"t">>)
TsNA == Str(<<"N", "/", "A">>)
LatSample == Num(28 * Den)
LonSample == Num(77 * Den)
GeoGood == GeoList(<<LatSample, LonSample>>)

\* A well-formed reading, and the same reading with one member changed.
GoodData == DataDict(Num(42 * Den), CityDict(GeoGood), TimeDict(TsSample))

AqiVariants == {Absent, Null, Str(<<"-">>), Str(<<"7", "5">>)}

CityVariants ==
    {CityAbsent, CityNull, CityDict(GeoAbsent), CityDict(GeoNull),
     CityDict(GeoList(<<>>)), CityDict(GeoList(<<LatSample>>)),
     CityDict(GeoList(<<Null, Null>>))}

TimeVariants == {TimeAbsent, TimeNull, TimeDict(Absent)}

OkData ==
    {GoodData, DataDict(Absent, CityAbsent, TimeAbsent)}
        \cup {[GoodData EXCEPT !.aqi = a] : a \in AqiVariants}
        \cup {[GoodData EXCEPT !.city = c] : c \in CityVariants}
        \cup {[GoodData EXCEPT !.time = t] : t \in TimeVariants}

Responses ==
    {Response("timeout", "", DataAbsent), Response("bad_status", "", DataAbsent)}
        \cup {Response("ok", "error", d) :
                d \in {DataAbsent, DataStr("Invalid key"), DataStr("")}}
        \cup {Response("ok", "ok", d) : d \in OkData \cup {DataAbsent, DataStr("x")}}

\* ------------------------------------------------------ Python truthiness

\* error: None or a message string.
NoError == [k |-> "none", msg |-> ""]
ErrorMsg(m) == [k |-> "str", msg |-> m]

\* `if error:` -- None and "" are falsy.
ErrorTruthy(e) == e.k = "str" /\ e.msg # ""

\* `elif aqi_data:` -- None, "" and {} are falsy.
DataTruthy(d) ==
    \/ d.k = "str" /\ d.msg # ""
    \/ d.k = "dict" /\ ~(d.aqi.k = "absent" /\ d.city.k = "absent" /\ d.time.k = "absent")

\* ----------------------------------------------------------- get_aqi_data

\* The (data, error) pair get_aqi_data returns for one upstream response.
\* tok is whether API_TOKEN is set; without it no request is made.
\* A missing "data" under status "ok" is the KeyError the last except clause
\* catches; under another status the error is whatever "data" holds, None and
\* "" included.
get_aqi_data(tok, resp) ==
    IF ~tok
    THEN [data |-> DataNull, error |-> ErrorMsg("API Token not configured")]
    ELSE IF resp.net # "ok"
    THEN [data |-> DataNull, error |-> ErrorMsg("Network error")]
    ELSE IF resp.status = "ok"
    THEN IF resp.data.k = "absent"
         THEN [data |-> DataNull, error |-> ErrorMsg("An unexpected error occurred")]
         ELSE [data |-> resp.data, error |-> NoError]
    ELSE [data |-> DataNull,
          error |-> CASE resp.data.k = "absent" -> ErrorMsg("Unknown error from API.")
                      [] resp.data.k = "str" -> ErrorMsg(resp.data.msg)
                      [] resp.data.k = "dict" /\ DataTruthy(resp.data) -> ErrorMsg("{...}")
                      [] OTHER -> NoError]

\* --------------------------------------------------------- get_aqi_category

Unknown == <<"Unknown", "#808080">>

\* The classifier with the first band's upper boundary exclusive.
get_aqi_category_exclusive(aqi) ==
    IF aqi.k \notin {"num", "nan"} THEN Unknown
    ELSE IF aqi.k = "nan" THEN Unknown
    ELSE IF 0 <= aqi.n /\ aqi.n < 50 * Den THEN <<"Good", "#009966">>
    ELSE IF 51 * Den <= aqi.n /\ aqi.n <= 100 * Den THEN <<"Moderate", "#FFDE33">>
    ELSE IF 101 * Den <= aqi.n /\ aqi.n <= 150 * Den
    THEN <<"Unhealthy for Sensitive Groups", "#FF9933">>
    ELSE IF 151 * Den <= aqi.n /\ aqi.n <= 200 * Den THEN <<"Unhealthy", "#CC0033">>
    ELSE IF 201 * Den <= aqi.n /\ aqi.n <= 300 * Den THEN <<"Very Unhealthy", "#660099">>
    ELSE IF aqi.n > 300 * Den THEN <<"Hazardous", "#7E0023">>
    ELSE Unknown

\* The category and color of one AQI cell.
get_aqi_category(aqi) ==
    IF aqi.k \notin {"num", "nan"} THEN Unknown
    ELSE IF aqi.k = "nan" THEN Unknown   \* every comparison with NaN is False
    ELSE IF 0 <= aqi.n /\ aqi.n <= 50 * Den THEN <<"Good", "#009966">>
    ELSE IF 51 * Den <= aqi.n /\ aqi.n <= 100 * Den THEN <<"Moderate", "#FFDE33">>
    ELSE IF 101 * Den <= aqi.n /\ aqi.n <= 150 * Den
    THEN <<"Unhealthy for Sensitive Groups", "#FF9933">>
    ELSE IF 151 * Den <= aqi.n /\ aqi.n <= 200 * Den THEN <<"Unhealthy", "#CC0033">>
    ELSE IF 201 * Den <= aqi.n /\ aqi.n <= 300 * Den THEN <<"Very Unhealthy", "#660099">>
    ELSE IF aqi.n > 300 * Den THEN <<"Hazardous", "#7E0023">>
    ELSE Unknown

\* ------------------------------------------------ the data_point of one city

\* aqi_data.get("city", {}).get("geo", [None, None])[idx]: whether it raises
\* (None has no .get, None is not subscriptable, the list is too short).
GeoRaises(d, idx) ==
    \/ d.city.k = "null"
    \/ d.city.k = "dict" /\ d.city.geo.k = "null"
    \/ d.city.k = "dict" /\ d.city.geo.k = "list" /\ Len(d.city.geo.xs) < idx

GeoAt(d, idx) ==
    IF d.city.k = "dict" /\ d.city.geo.k = "list" THEN d.city.geo.xs[idx] ELSE Null

\* aqi_data.get("time", {}).get("s", "N/A")
TimeRaises(d) == d.time.k = "null"

TimeOf(d) ==
    IF d.time.k = "dict" /\ d.time.s.k # "absent" THEN d.time.s ELSE TsNA

\* Building the dict literal raises when aqi_data is a string (no .get) or
\* when one of the chained lookups does.
RowRaises(d) ==
    \/ d.k = "str"
    \/ GeoRaises(d, 1)
    \/ GeoRaises(d, 2)
    \/ TimeRaises(d)

data_point(name, d) ==
    [City |-> name,
     AQI |-> GetOrNone(d.aqi),
     Latitude |-> GeoAt(d, 1),
     Longitude |-> GeoAt(d, 2),
     Timestamp |-> TimeOf(d)]

\* The FetchFailure line "Could not fetch data for {city}: {error}".
FailureLine(name, e) == [City |-> name, msg |-> e.msg]

\* ------------------------------------------------------------ normalization

\* pandas isna: None and NaN.
IsNA(v) == v.k \in {"null", "nan"}

\* A row dropna keeps: none of the three subset columns is NA.
KeepRow(r) == ~IsNA(r.AQI) /\ ~IsNA(r.Latitude) /\ ~IsNA(r.Longitude)

RECURSIVE DropNaPrepend(_)
\* dropna that rebuilds the frame back to front.
DropNaPrepend(rows) ==
    IF rows = <<>> THEN <<>>
    ELSE DropNaPrepend(Tail(rows))
            \o (IF KeepRow(Head(rows)) THEN <<Head(rows)>> ELSE <<>>)

RECURSIVE DropNa(_)
\* df.dropna(subset=['AQI', 'Latitude', 'Longitude'], inplace=True)
DropNa(rows) ==
    IF rows = <<>> THEN <<>>
    ELSE (IF KeepRow(Head(rows)) THEN <<Head(rows)>> ELSE <<>>) \o DropNa(Tail(rows))

Digit(c) ==
    CASE c = "0" -> 0 [] c = "1" -> 1 [] c = "2" -> 2 [] c = "3" -> 3
      [] c = "4" -> 4 [] c = "5" -> 5 [] c = "6" -> 6 [] c = "7" -> 7
      [] c = "8" -> 8 [] c = "9" -> 9 [] OTHER -> -1

RECURSIVE DigitsValue(_, _)
\* The value of a run of decimal digits, or -1 when a character is no digit.
DigitsValue(cs, acc) ==
    IF cs = <<>> THEN acc
    ELSE IF Digit(Head(cs)) < 0 THEN -1
    ELSE DigitsValue(Tail(cs), 10 * acc + Digit(Head(cs)))

\* pd.to_numeric(x, errors='coerce') of one cell: numbers pass, a string of
\* digits (with an optional sign) parses, anything else becomes NaN.
ToNumeric(v) ==
    CASE v.k = "num" -> v
      [] v.k = "str" ->
            LET neg == v.s # <<>> /\ Head(v.s) = "-"
                ds == IF neg THEN Tail(v.s) ELSE v.s
                val == IF ds = <<>> THEN -1 ELSE DigitsValue(ds, 0)
            IN IF val < 0 THEN NaN
               ELSE Num((IF neg THEN -1 ELSE 1) * val * Den)
      [] OTHER -> NaN

\* df['AQI'] = pd.to_numeric(df['AQI'], errors='coerce')
CoerceAqi(rows) == [j \in 1..Len(rows) |-> [rows[j] EXCEPT !.AQI = ToNumeric(@)]]

\* df['AQI'].apply(get_aqi_category)
ApplyCategory(rows) == [j \in 1..Len(rows) |-> get_aqi_category(rows[j].AQI)]

\* -------------------------------------------------------------------- state

VARIABLES
    token,          \* API_TOKEN is set: os.environ.get('AQI_API_TOKEN') is
                    \* truthy (the environment is fixed for the process)
    cache,          \* the st.cache_data entry of fetch_all_cities_data
    age,            \* seconds since the entry was written, saturating at ttl
    pc,             \* where the current script run stands
    callKind,       \* how the run's call was served: "none", "hit" or "miss"
    i,              \* cities the loop has completed
    all_data,       \* rows appended so far
    errors,         \* failure lines appended so far
    fetchLog,       \* cities get_aqi_data was called for, in call order
    netLog,         \* cities an HTTP GET was issued for, in call order
    progress,       \* fractions <<done, total>> passed to progress_bar.progress
    sleeps,         \* time.sleep(0.5) calls made
    signal,         \* the FATAL st.error element was emitted in this run
    df,             \* the frame the call returned, mutated by normalization
    fetch_errors,   \* the failure list the call returned
    cats,           \* the (Category, Color) columns, aligned with df
    clsIn,          \* classifier harness: the input
    clsOut          \* classifier harness: the output, <<>> until applied

runVars ==
    <<i, all_data, errors, fetchLog, netLog, progress, sleeps, signal, df,
      fetch_errors, cats>>

vars == <<token, cache, age, pc, callKind, runVars, clsIn, clsOut>>

NoEntry == [has |-> FALSE, rows |-> <<>>, errs |-> <<>>, signal |-> FALSE]

\* What st.cache_data keeps of a call that returned: the value and the
\* elements the function emitted, replayed on a hit.
StoreEntry(rows, errs, sig) ==
    [has |-> TRUE, rows |-> rows, errs |-> errs, signal |-> sig]

\* An entry still served at the age of exactly ttl.
CacheFreshInclusive == cache.has /\ age <= ttl

\* The entry is served while it is younger than ttl.
CacheFresh == cache.has /\ age < ttl

\* The check after the loop without its token test.
UnconfiguredNoTokenCheck(rows) == rows = <<>>

\* `if not all_data and not API_TOKEN`
Unconfigured(rows) == rows = <<>> /\ ~token

\* Between script runs.
Idle == pc \in {"start", "shown_empty", "rendered", "raised", "crashed"}

\* Seconds that may pass between two script runs.
Elapse == {299, 300, 301}

Min(a, b) == IF a < b THEN a ELSE b

Init ==
    /\ token \in BOOLEAN
    /\ cache = NoEntry
    /\ age = 0
    /\ pc = "start"
    /\ callKind = "none"
    /\ i = 0
    /\ all_data = <<>>
    /\ errors = <<>>
    /\ fetchLog = <<>>
    /\ netLog = <<>>
    /\ progress = <<>>
    /\ sleeps = 0
    /\ signal = FALSE
    /\ df = <<>>
    /\ fetch_errors = <<>>
    /\ cats = <<>>
    /\ clsIn = Null
    /\ clsOut = <<>>

\* ------------------------------------------------------------------ actions

\* Time passes between script runs.
Tick ==
    /\ Idle
    /\ cache.has
    /\ age < ttl
    /\ \E d \in Elapse : age' = Min(age + d, ttl)
    /\ UNCHANGED <<token, cache, pc, callKind, runVars, clsIn, clsOut>>

\* A script run calls fetch_all_cities_data and the entry is fresh: the cached
\* value is returned and the recorded elements replayed; the body does not run.
CallHit ==
    /\ Idle
    /\ CacheFresh
    /\ pc' = "returned"
    /\ callKind' = "hit"
    /\ df' = cache.rows
    /\ fetch_errors' = cache.errs
    /\ signal' = cache.signal
    /\ i' = 0
    /\ all_data' = <<>>
    /\ errors' = <<>>
    /\ fetchLog' = <<>>
    /\ netLog' = <<>>
    /\ progress' = <<>>
    /\ sleeps' = 0
    /\ cats' = <<>>
    /\ UNCHANGED <<token, cache, age, clsIn, clsOut>>

\* A script run calls fetch_all_cities_data and there is no fresh entry: the
\* expired entry is gone and the body starts (all_data = [], errors = []).
CallMiss ==
    /\ Idle
    /\ ~CacheFresh
    /\ pc' = "loop"
    /\ callKind' = "miss"
    /\ cache' = NoEntry
    /\ age' = 0
    /\ i' = 0
    /\ all_data' = <<>>
    /\ errors' = <<>>
    /\ fetchLog' = <<>>
    /\ netLog' = <<>>
    /\ progress' = <<>>
    /\ sleeps' = 0
    /\ signal' = FALSE
    /\ df' = <<>>
    /\ fetch_errors' = <<>>
    /\ cats' = <<>>
    /\ UNCHANGED <<token, clsIn, clsOut>>

\* One iteration of the loop over CITIES.items().
FetchCity ==
    /\ pc = "loop"
    /\ i < NumCities
    /\ \E resp \in Responses :
         LET name == CITIES[i + 1]
             r == get_aqi_data(token, resp)
             raises == ~ErrorTruthy(r.error) /\ DataTruthy(r.data) /\ RowRaises(r.data)
         IN /\ fetchLog' = Append(fetchLog, name)
            /\ netLog' = IF token THEN Append(netLog, name) ELSE netLog
            /\ errors' = IF ErrorTruthy(r.error)
                         THEN Append(errors, FailureLine(name, r.error))
                         ELSE errors
            /\ all_data' = IF ~ErrorTruthy(r.error) /\ DataTruthy(r.data) /\ ~raises
                           THEN Append(all_data, data_point(name, r.data))
                           ELSE all_data
            /\ IF raises
               THEN /\ pc' = "raised"
                    /\ UNCHANGED <<i, progress, sleeps>>
               ELSE /\ pc' = "loop"
                    /\ i' = i + 1
                    /\ progress' = Append(progress, <<i + 1, NumCities>>)
                    /\ sleeps' = sleeps + 1
    /\ UNCHANGED <<token, cache, age, callKind, signal, df, fetch_errors, cats,
                   clsIn, clsOut>>

\* After the loop: the unconfigured check, the return, and the cache write.
FinishRefresh ==
    /\ pc = "loop"
    /\ i = NumCities
    /\ LET unconf == Unconfigured(all_data)
           rows == IF unconf THEN <<>> ELSE all_data
           errs == IF unconf THEN <<>> ELSE errors
       IN /\ signal' = unconf
          /\ df' = rows
          /\ fetch_errors' = errs
          /\ cache' = StoreEntry(rows, errs, unconf)
    /\ age' = 0
    /\ pc' = "returned"
    /\ UNCHANGED <<token, callKind, i, all_data, errors, fetchLog, netLog,
                   progress, sleeps, cats, clsIn, clsOut>>

\* `if df.empty: st.info(...)`
ShowEmpty ==
    /\ pc = "returned"
    /\ df = <<>>
    /\ pc' = "shown_empty"
    /\ UNCHANGED <<token, cache, age, callKind, runVars, clsIn, clsOut>>

\* else: df.dropna(...)
Dropna ==
    /\ pc = "returned"
    /\ df # <<>>
    /\ df' = DropNa(df)
    /\ pc' = "to_numeric"
    /\ UNCHANGED <<token, cache, age, callKind, i, all_data, errors, fetchLog,
                   netLog, progress, sleeps, signal, fetch_errors, cats, clsIn,
                   clsOut>>

\* df['AQI'] = pd.to_numeric(...)
Coerce ==
    /\ pc = "to_numeric"
    /\ df' = CoerceAqi(df)
    /\ pc' = "classify"
    /\ UNCHANGED <<token, cache, age, callKind, i, all_data, errors, fetchLog,
                   netLog, progress, sleeps, signal, fetch_errors, cats, clsIn,
                   clsOut>>

\* df['Category'], df['Color'] = zip(*df['AQI'].apply(get_aqi_category)):
\* with no row left zip() yields nothing and the unpacking raises ValueError.
Classify ==
    /\ pc = "classify"
    /\ IF df = <<>>
       THEN pc' = "crashed" /\ cats' = cats
       ELSE pc' = "rendered" /\ cats' = ApplyCategory(df)
    /\ UNCHANGED <<token, cache, age, callKind, i, all_data, errors, fetchLog,
                   netLog, progress, sleeps, signal, df, fetch_errors, clsIn,
                   clsOut>>

Next ==
    \/ Tick
    \/ CallHit
    \/ CallMiss
    \/ FetchCity
    \/ FinishRefresh
    \/ ShowEmpty
    \/ Dropna
    \/ Coerce
    \/ Classify

Spec == Init /\ [][Next]_vars

\* ------------------------------------------------- the classifier on its own

ClassifyInputs ==
    {Null, NaN, Str(<<"x">>)} \cup {Num(n) : n \in (-Den)..(MaxAqi * Den)}

InitClassify ==
    /\ token = TRUE
    /\ cache = NoEntry
    /\ age = 0
    /\ pc = "start"
    /\ callKind = "none"
    /\ i = 0
    /\ all_data = <<>>
    /\ errors = <<>>
    /\ fetchLog = <<>>
    /\ netLog = <<>>
    /\ progress = <<>>
    /\ sleeps = 0
    /\ signal = FALSE
    /\ df = <<>>
    /\ fetch_errors = <<>>
    /\ cats = <<>>
    /\ clsIn \in ClassifyInputs
    /\ clsOut = <<>>

ApplyClassify ==
    /\ clsOut = <<>>
    /\ clsOut' = get_aqi_category(clsIn)
    /\ UNCHANGED <<token, cache, age, pc, callKind, runVars, clsIn>>

NextClassify == ApplyClassify

SpecClassify == InitClassify /\ [][NextClassify]_vars

\* =================================================================== claims

\* The call of this run has returned (normalization may be under way).
Returned ==
    pc \in {"returned", "shown_empty", "to_numeric", "classify", "rendered", "crashed"}

\* The cities named by a sequence of rows or of failure lines.
CitiesOf(s) == {s[j].City : j \in 1..Len(s)}

\* The position of a display name in the city configuration.
CityIndex(name) == CHOOSE k \in 1..Len(AllCities) : AllCities[k] = name

\* C1: after a refresh with a token configured, every configured city is in
\* exactly one of the two lists: with n cities and k failure entries there are
\* n - k rows, each failure entry carries its city's display name, and no city
\* is missing from both the rows and the failure entries.
C1_EveryCityAccounted ==
    (pc = "returned" /\ callKind = "miss" /\ token) =>
        /\ Len(df) + Len(fetch_errors) = NumCities
        /\ CitiesOf(df) \cup CitiesOf(fetch_errors) = {CITIES[k] : k \in 1..NumCities}
        /\ CitiesOf(df) \cap CitiesOf(fetch_errors) = {}

\* C2: a call made while the cached Batch is younger than 600 seconds returns
\* the cached Batch and invokes no Fetcher (no network call); a refresh starts,
\* and the entry is replaced, only on a call that finds no entry or an entry
\* whose age has reached 600 seconds.
C2_CacheGate ==
    /\ [](callKind = "hit" => fetchLog = <<>> /\ netLog = <<>>)
    /\ [][(Idle /\ pc' # pc) =>
            IF cache.has /\ age < 600
            THEN /\ callKind' = "hit"
                 /\ pc' = "returned"
                 /\ df' = cache.rows
                 /\ fetch_errors' = cache.errs
                 /\ cache' = cache
            ELSE /\ callKind' = "miss"
                 /\ pc' = "loop"]_vars
    /\ [][(cache'.has /\ cache' # cache) => (callKind = "miss" /\ pc = "loop")]_vars

\* C2 witness: a call served from an entry 599 seconds old.
C2_Witness ==
    /\ callKind = "hit"
    /\ pc = "returned"
    /\ age = 599
    /\ df # <<>>
    /\ df = cache.rows

C4_SurvivorsComplete ==
    pc = "rendered" =>
        \A j \in 1..Len(df) :
            /\ df[j].AQI.k = "num"
            /\ ~IsNA(df[j].Latitude)
            /\ ~IsNA(df[j].Longitude)

\* The band table of the classifier's contract: inclusive numeric bands, and
\* the open band above 300.
Bands ==
    { [lo |-> 0, hi |-> 50, out |-> <<"Good", "#009966">>],
      [lo |-> 51, hi |-> 100, out |-> <<"Moderate", "#FFDE33">>],
      [lo |-> 101, hi |-> 150, out |-> <<"Unhealthy for Sensitive Groups", "#FF9933">>],
      [lo |-> 151, hi |-> 200, out |-> <<"Unhealthy", "#CC0033">>],
      [lo |-> 201, hi |-> 300, out |-> <<"Very Unhealthy", "#660099">>] }

\* The outputs of the table rows a value lies in.
BandsOf(a) ==
    IF a.k # "num" THEN {}
    ELSE {b.out : b \in {c \in Bands : c.lo * Den <= a.n /\ a.n <= c.hi * Den}}
            \cup (IF a.n > 300 * Den THEN {<<"Hazardous", "#7E0023">>} ELSE {})

\* A non-negative whole number.
IsWholeAqi(a) == a.k = "num" /\ a.n >= 0 /\ a.n % Den = 0

\* C5 as stated: Unknown is returned only for null or non-numeric input, every
\* numeric value lying in some band.
C5_UnknownOnlyNonNumeric ==
    (clsOut # <<>> /\ clsOut = Unknown) => clsIn.k \in {"null", "str", "nan"}

\* C5 amended: a value lies in at most one band of the table and the classifier
\* returns that band's label and color, boundaries inclusive; every whole
\* number from 0 up lies in exactly one band; Unknown is returned for null and
\* non-numeric input and for the numeric values that lie in no band (negative
\* values, NaN, and fractions strictly between two adjacent bands).
C5_TableOrUnknown ==
    clsOut # <<>> =>
        /\ Cardinality(BandsOf(clsIn)) <= 1
        /\ BandsOf(clsIn) # {} => clsOut \in BandsOf(clsIn)
        /\ BandsOf(clsIn) = {} => clsOut = Unknown
        /\ IsWholeAqi(clsIn) => Cardinality(BandsOf(clsIn)) = 1

\* C5 witness: the inclusive boundary 50 classified Good.
C5_Witness ==
    /\ clsIn = Num(50 * Den)
    /\ clsOut = <<"Good", "#009966">>

\* C6: no fault leaves the Collector: whatever each city's response is, the
\* call does not end in an exception.
C6_NoFaultEscapes == pc # "raised"

RECURSIVE IsSubseq(_, _)
\* s is a subsequence of t.
IsSubseq(s, t) ==
    IF s = <<>> THEN TRUE
    ELSE IF t = <<>> THEN FALSE
    ELSE IF Head(s) = Head(t) THEN IsSubseq(Tail(s), Tail(t))
    ELSE IsSubseq(s, Tail(t))

\* What identifies a row across normalization (the coerced AQI aside).
RowKeys(s) ==
    [j \in 1..Len(s) |-> <<s[j].City, s[j].Latitude, s[j].Longitude, s[j].Timestamp>>]

\* C7: the normalized table is an order-preserving subsequence of the Batch's
\* rows: no new row, never more rows, and the survivors in the order of the
\* city configuration.
C7_OrderPreservingSubsequence ==
    pc \in {"to_numeric", "classify", "rendered", "crashed"} =>
        /\ Len(df) <= Len(cache.rows)
        /\ IsSubseq(RowKeys(df), RowKeys(cache.rows))
        /\ \A a, b \in 1..Len(df) : a < b => CityIndex(df[a].City) < CityIndex(df[b].City)

\* C7 witness: one row of three discarded, the other two rendered.
C7_Witness ==
    /\ pc = "rendered"
    /\ Len(cache.rows) = 3
    /\ Len(df) = 2

C10_OncePerCityInOrder ==
    (token /\ callKind = "miss") =>
        /\ fetchLog = SubSeq(CITIES, 1, Len(fetchLog))
        /\ netLog = fetchLog
        /\ progress = [k \in 1..i |-> <<k, NumCities>>]
        /\ pc = "loop" => Len(fetchLog) = i
        /\ pc # "loop" => (fetchLog = CITIES /\ i = NumCities)

====
